---- MODULE Spec2Model ----
(***************************************************************************)
(* Verlet particle solver of src/main.rs.                                  *)
(*                                                                         *)
(* f32 values are modelled as binary fixed-point numbers with ONE units    *)
(* per 1.0, together with the IEEE special values NaN and +/-Inf.  Every   *)
(* arithmetic operation rounds its exact result to the nearest unit (ties  *)
(* to even), as the f32 operation rounds to the nearest float.  A value    *)
(* is the record [cls, v]: cls = "fin" with v the number of units,         *)
(* cls = "nan", or cls = "inf" with v the sign.                            *)
(***************************************************************************)
EXTENDS Integers, Sequences, FiniteSets, TLC

ONE == 8 * 4

F(n) == [cls |-> "fin", v |-> n]

NaN == [cls |-> "nan", v |-> 0]

Inf(s) == [cls |-> "inf", v |-> s]

IsFinite(a) == a.cls = "fin"

IsNaN(a) == a.cls = "nan"

Sign(n) == IF n < 0 THEN -1 ELSE 1

\* nearest integer to num/den (den > 0), ties to even
RoundPos(num, den) ==
    LET q == num \div den
        r == num % den
    IN  IF 2 * r < den THEN q
        ELSE IF 2 * r > den THEN q + 1
        ELSE IF q % 2 = 0 THEN q ELSE q + 1

Round(num, den) == IF den < 0 THEN RoundPos(-num, -den) ELSE RoundPos(num, den)

\* u32 -> f32 (`substeps as f32`)
FromU32(n) == F(n * ONE)

fneg(a) == IF a.cls = "nan" THEN NaN ELSE [cls |-> a.cls, v |-> -a.v]

fadd(a, b) ==
    IF a.cls = "nan" \/ b.cls = "nan" THEN NaN
    ELSE IF a.cls = "inf" /\ b.cls = "inf" THEN (IF a.v = b.v THEN a ELSE NaN)
    ELSE IF a.cls = "inf" THEN a
    ELSE IF b.cls = "inf" THEN b
    ELSE F(a.v + b.v)

fsub(a, b) == fadd(a, fneg(b))

fmul(a, b) ==
    IF a.cls = "nan" \/ b.cls = "nan" THEN NaN
    ELSE IF a.cls = "inf" \/ b.cls = "inf"
         THEN (IF a.v = 0 \/ b.v = 0 THEN NaN ELSE Inf(Sign(a.v) * Sign(b.v)))
    ELSE F(Round(a.v * b.v, ONE))

fdiv(a, b) ==
    IF a.cls = "nan" \/ b.cls = "nan" THEN NaN
    ELSE IF a.cls = "inf" THEN (IF b.cls = "inf" THEN NaN ELSE Inf(a.v * Sign(b.v)))
    ELSE IF b.cls = "inf" THEN F(0)
    ELSE IF b.v = 0 THEN (IF a.v = 0 THEN NaN ELSE Inf(Sign(a.v)))
    ELSE F(Round(a.v * ONE, b.v))

\* a < b on f32: false as soon as one side is NaN
flt(a, b) ==
    IF a.cls = "nan" \/ b.cls = "nan" THEN FALSE
    ELSE IF a.cls = "inf" THEN a.v < 0 /\ ~(b.cls = "inf" /\ b.v < 0)
    ELSE IF b.cls = "inf" THEN b.v > 0
    ELSE a.v < b.v

RECURSIVE SqrtSearch(_, _, _)
\* floor of the square root of n, with lo*lo <= n < hi*hi
SqrtSearch(n, lo, hi) ==
    IF hi - lo <= 1 THEN lo
    ELSE LET mid == (lo + hi) \div 2
         IN  IF mid * mid <= n THEN SqrtSearch(n, mid, hi) ELSE SqrtSearch(n, lo, mid)

\* nearest integer to the square root of n
SqrtNearest(n) ==
    LET r == SqrtSearch(n, 0, IF n < 46340 THEN n + 1 ELSE 46340)
    IN  IF n - r * r > r THEN r + 1 ELSE r

(***************************************************************************)
(* Vec2                                                                    *)
(***************************************************************************)
Vec2(x, y) == [x |-> x, y |-> y]

vadd(a, b) == Vec2(fadd(a.x, b.x), fadd(a.y, b.y))

vsub(a, b) == Vec2(fsub(a.x, b.x), fsub(a.y, b.y))

\* Vec2 * f32 and f32 * Vec2
vscale(a, s) == Vec2(fmul(a.x, s), fmul(a.y, s))

\* Vec2 / f32
vdiv(a, s) == Vec2(fdiv(a.x, s), fdiv(a.y, s))

\* Vec2::length(): the correctly rounded Euclidean norm
length(a) ==
    IF a.x.cls = "nan" \/ a.y.cls = "nan" THEN NaN
    ELSE IF a.x.cls = "inf" \/ a.y.cls = "inf" THEN Inf(1)
    ELSE F(SqrtNearest(a.x.v * a.x.v + a.y.v * a.y.v))

RADIUS == 3

fRADIUS == F(RADIUS * ONE)

(***************************************************************************)
(* VerletObject                                                            *)
(***************************************************************************)
new(position) ==
    [position_current |-> position,
     position_old     |-> position,
     acceleration     |-> Vec2(F(0), F(0))]

\* mutant: the implicit velocity is not carried into the new position
update_position_drops_velocity(self, dt) ==
    [position_old     |-> self.position_current,
     position_current |-> vadd(self.position_current,
                               vscale(vscale(self.acceleration, dt), dt)),
     acceleration     |-> Vec2(F(0), F(0))]

\* mutant: the implicit velocity is scaled by dt
update_position_scales_velocity(self, dt) ==
    LET velocity == vsub(self.position_current, self.position_old)
    IN  [position_old     |-> self.position_current,
         position_current |-> vadd(self.position_current,
                                   vadd(vscale(velocity, dt),
                                        vscale(vscale(self.acceleration, dt), dt))),
         acceleration     |-> Vec2(F(0), F(0))]

\* mutant: the acceleration is not reset
update_position_keeps_acceleration(self, dt) ==
    LET velocity == vsub(self.position_current, self.position_old)
    IN  [position_old     |-> self.position_current,
         position_current |-> vadd(self.position_current,
                                   vadd(velocity, vscale(vscale(self.acceleration, dt), dt))),
         acceleration     |-> self.acceleration]

update_position(self, dt) ==
    LET velocity == vsub(self.position_current, self.position_old)
    IN  [position_old     |-> self.position_current,
         position_current |-> vadd(self.position_current,
                                   vadd(velocity, vscale(vscale(self.acceleration, dt), dt))),
         acceleration     |-> Vec2(F(0), F(0))]

accelerate(self, acceleration) ==
    [self EXCEPT !.acceleration = vadd(self.acceleration, acceleration)]

get_position(self) == self.position_current

(***************************************************************************)
(* Solver                                                                  *)
(***************************************************************************)
gravity == Vec2(F(0), F(1000 * ONE))

apply_gravity(objs, g) == [i \in DOMAIN objs |-> accelerate(objs[i], g)]

update_positions(objs, dt) == [i \in DOMAIN objs |-> update_position(objs[i], dt)]

\* mutant: the clamp also overwrites position_old
constrain_resets_old(object, sw, sh) ==
    LET lo  == fadd(fadd(F(0), fRADIUS), F(ONE))
        hiX == fsub(fsub(sw, fRADIUS), F(ONE))
        hiY == fsub(fsub(sh, fRADIUS), F(ONE))
        x0  == get_position(object).x
        x1  == IF flt(x0, lo) THEN lo ELSE x0
        x2  == IF flt(hiX, x1) THEN hiX ELSE x1
        y0  == get_position(object).y
        y1  == IF flt(y0, lo) THEN lo ELSE y0
        y2  == IF flt(hiY, y1) THEN hiY ELSE y1
    IN  [object EXCEPT !.position_current = Vec2(x2, y2), !.position_old = Vec2(x2, y2)]

\* the four sequential ifs of apply_constraints on one object
constrain(object, sw, sh) ==
    LET lo  == fadd(fadd(F(0), fRADIUS), F(ONE))
        hiX == fsub(fsub(sw, fRADIUS), F(ONE))
        hiY == fsub(fsub(sh, fRADIUS), F(ONE))
        x0  == get_position(object).x
        x1  == IF flt(x0, lo) THEN lo ELSE x0
        x2  == IF flt(hiX, x1) THEN hiX ELSE x1
        y0  == get_position(object).y
        y1  == IF flt(y0, lo) THEN lo ELSE y0
        y2  == IF flt(hiY, y1) THEN hiY ELSE y1
    IN  [object EXCEPT !.position_current = Vec2(x2, y2)]

apply_constraints(objs, sw, sh) == [i \in DOMAIN objs |-> constrain(objs[i], sw, sh)]

\* mutant: each object is pushed by a quarter of the overlap
collide_quarter_push(objs, i, j) ==
    LET collision_axis == vsub(get_position(objs[i]), get_position(objs[j]))
        distance       == length(collision_axis)
    IN  IF flt(distance, fmul(F(2 * ONE), fRADIUS))
        THEN LET n     == vdiv(collision_axis, distance)
                 delta == fsub(fmul(F(2 * ONE), fRADIUS), distance)
                 push  == vscale(n, fmul(F(ONE \div 4), delta))
             IN  [objs EXCEPT ![i].position_current = vadd(objs[i].position_current, push),
                              ![j].position_current = vsub(objs[j].position_current, push)]
        ELSE objs

\* body of the inner loop of solve_collisions for the pair (i, j)
collide(objs, i, j) ==
    LET collision_axis == vsub(get_position(objs[i]), get_position(objs[j]))
        distance       == length(collision_axis)
    IN  IF flt(distance, fmul(F(2 * ONE), fRADIUS))
        THEN LET n     == vdiv(collision_axis, distance)
                 delta == fsub(fmul(F(2 * ONE), fRADIUS), distance)
                 push  == vscale(n, fmul(F(ONE \div 2), delta))
             IN  [objs EXCEPT ![i].position_current = vadd(objs[i].position_current, push),
                              ![j].position_current = vsub(objs[j].position_current, push)]
        ELSE objs

RECURSIVE collide_from(_, _, _)
\* the double loop of solve_collisions, resumed at the pair (i, j)
collide_from(objs, i, j) ==
    IF i > Len(objs) THEN objs
    ELSE IF j > Len(objs) THEN collide_from(objs, i + 1, i + 2)
    ELSE collide_from(collide(objs, i, j), i, j + 1)

solve_collisions(objs) == collide_from(objs, 1, 2)

\* mutant: inclusive range 0..=substeps
loop_continues_inclusive(k, n) == k <= n

\* the for-loop condition of Solver::update
loop_continues(k, n) == k < n

\* mutant: collisions are solved before the constraints are applied
phase_after_swapped(p) ==
    CASE p = "apply_gravity"     -> "solve_collisions"
      [] p = "solve_collisions"  -> "apply_constraints"
      [] p = "apply_constraints" -> "update_positions"
      [] p = "update_positions"  -> "for"

\* statement that follows statement p in the loop body of Solver::update
phase_after(p) ==
    CASE p = "apply_gravity"     -> "apply_constraints"
      [] p = "apply_constraints" -> "solve_collisions"
      [] p = "solve_collisions"  -> "update_positions"
      [] p = "update_positions"  -> "for"

RECURSIVE sub_iterations(_, _, _, _, _, _)
\* iterations k, k+1, ... of the loop `for _ in 0..n` of Solver::update
sub_iterations(objs, sdt, k, n, sw, sh) ==
    IF ~loop_continues(k, n) THEN objs
    ELSE sub_iterations(
             update_positions(
                 solve_collisions(apply_constraints(apply_gravity(objs, gravity), sw, sh)),
                 sdt),
             sdt, k + 1, n, sw, sh)

\* Solver::update as one call
update(objs, d, n, sw, sh) == sub_iterations(objs, fdiv(d, FromU32(n)), 0, n, sw, sh)

(***************************************************************************)
(* State.  objects is the host's collection; pc is the statement about to  *)
(* run: in the frame loop of main "idle" (top of the loop), "mouse" (the   *)
(* spawn) and "call" (solver.update), in Solver::update "for", the four    *)
(* phases and "return"; dt, substeps, sub_dt and iter are the arguments    *)
(* and locals of the call (main passes a frame time and a substep count,   *)
(* here drawn from small sets that include substeps = 0);                  *)
(* screen_width/screen_height are what macroquad reports; frames counts    *)
(* the calls made; before is the collection as it was when the operation   *)
(* in progress was called (history, read by the properties only).  A       *)
(* frame of main clears at most once, spawns at most one object and then   *)
(* calls solver.update once.                                               *)
(***************************************************************************)
VARIABLES objects, pc, dt, substeps, sub_dt, iter, screen_width, screen_height,
          frames, before

vars == <<objects, pc, dt, substeps, sub_dt, iter, screen_width, screen_height,
          frames, before>>

MaxObjects == 3

MaxFrames == 2

MaxSubsteps == 2

Px(n) == F(n * ONE)

Pt(x, y) == Vec2(Px(x), Px(y))

ScreenWidths == {Px(16), Px(20)}

ScreenHeights == {Px(16)}

\* mouse positions at which the host spawns
SpawnPoints == {Pt(8, 8), Pt(10, 8), Pt(11, 12)}

\* frame times: 1/8 s
FrameTimes == {F(ONE \div 8)}

Init ==
    /\ screen_width \in ScreenWidths
    /\ screen_height \in ScreenHeights
    /\ objects = << new(Vec2(fdiv(screen_width, F(2 * ONE)), fdiv(screen_height, F(2 * ONE)))) >>
    /\ pc = "idle"
    /\ dt = F(0)
    /\ substeps = 0
    /\ sub_dt = F(0)
    /\ iter = 0
    /\ frames = 0
    /\ before = objects

\* main: if is_key_pressed(KeyCode::Space) { objects.clear() }
KeySpace(pressed) ==
    /\ pc = "idle"
    /\ objects' = IF pressed THEN << >> ELSE objects
    /\ pc' = "mouse"
    /\ UNCHANGED <<dt, substeps, sub_dt, iter, screen_width, screen_height, frames, before>>

\* main: if is_mouse_button_down(..) { objects.push(VerletObject::new(mouse_position)) }
Spawn(p) ==
    /\ pc = "mouse"
    /\ Len(objects) < MaxObjects
    /\ objects' = Append(objects, new(p))
    /\ pc' = "call"
    /\ UNCHANGED <<dt, substeps, sub_dt, iter, screen_width, screen_height, frames, before>>

\* main: the mouse button is up, or the last spawn is less than 0.01 s old
NoSpawn ==
    /\ pc = "mouse"
    /\ pc' = "call"
    /\ UNCHANGED <<objects, dt, substeps, sub_dt, iter, screen_width, screen_height, frames, before>>

\* entry of Solver::update: let sub_dt = dt / substeps as f32
UpdateCall(d, n) ==
    /\ pc = "call"
    /\ frames < MaxFrames
    /\ dt' = d
    /\ substeps' = n
    /\ sub_dt' = fdiv(d, FromU32(n))
    /\ iter' = 0
    /\ pc' = "for"
    /\ frames' = frames + 1
    /\ before' = objects
    /\ UNCHANGED <<objects, screen_width, screen_height>>

\* for _ in 0..substeps
ForLoop ==
    /\ pc = "for"
    /\ pc' = IF loop_continues(iter, substeps) THEN "apply_gravity" ELSE "return"
    /\ UNCHANGED <<objects, dt, substeps, sub_dt, iter, screen_width, screen_height, frames, before>>

ApplyGravity ==
    /\ pc = "apply_gravity"
    /\ objects' = apply_gravity(objects, gravity)
    /\ pc' = phase_after(pc)
    /\ UNCHANGED <<dt, substeps, sub_dt, iter, screen_width, screen_height, frames, before>>

ApplyConstraints ==
    /\ pc = "apply_constraints"
    /\ objects' = apply_constraints(objects, screen_width, screen_height)
    /\ pc' = phase_after(pc)
    /\ UNCHANGED <<dt, substeps, sub_dt, iter, screen_width, screen_height, frames, before>>

SolveCollisions ==
    /\ pc = "solve_collisions"
    /\ objects' = solve_collisions(objects)
    /\ pc' = phase_after(pc)
    /\ UNCHANGED <<dt, substeps, sub_dt, iter, screen_width, screen_height, frames, before>>

UpdatePositions ==
    /\ pc = "update_positions"
    /\ objects' = update_positions(objects, sub_dt)
    /\ pc' = phase_after(pc)
    /\ iter' = iter + 1
    /\ UNCHANGED <<dt, substeps, sub_dt, screen_width, screen_height, frames, before>>

\* Solver::update returns its DebugTimeInfo
Return ==
    /\ pc = "return"
    /\ pc' = "idle"
    /\ UNCHANGED <<objects, dt, substeps, sub_dt, iter, screen_width, screen_height, frames, before>>

Next ==
    \/ \E pressed \in BOOLEAN : KeySpace(pressed)
    \/ \E p \in SpawnPoints : Spawn(p)
    \/ NoSpawn
    \/ \E d \in FrameTimes, n \in 0..MaxSubsteps : UpdateCall(d, n)
    \/ ForLoop
    \/ ApplyGravity
    \/ ApplyConstraints
    \/ SolveCollisions
    \/ UpdatePositions
    \/ Return

Spec == Init /\ [][Next]_vars

(***************************************************************************)
(* Unit calls.  A second specification applies one operation to an input   *)
(* collection drawn from bounded sets: VerletObject::update_position on    *)
(* every object, Solver::solve_collisions, or a whole Solver::update.      *)
(* before keeps the input.  The collision inputs are objects at rest on a  *)
(* row or on a column with coordinates on quarter pixels, for which every  *)
(* f32 operation of the pass is exact.                                     *)
(***************************************************************************)
UnitScreen == Px(128)

LinePoints == {8, 12, 16, 22}

RowPoints == {Pt(x, 8) : x \in LinePoints}

ColumnPoints == {Pt(8, y) : y \in LinePoints}

\* objects at rest at the points of ps, in collections of 2 and 3
AtRest(ps) ==
    {<<new(a), new(b)>> : a \in ps, b \in ps}
        \cup {<<new(a), new(b), new(c)>> : a \in ps, b \in ps, c \in ps}

Velocities == {Pt(0, 0), Pt(1, 0), Pt(0, 2), Pt(-1, 1)}

\* one object with an implicit velocity and an accumulated acceleration
Moving ==
    {<< [position_current |-> p, position_old |-> vsub(p, v), acceleration |-> a] >> :
        p \in {Pt(8, 8), Pt(10, 8)}, v \in Velocities, a \in {Vec2(F(0), F(0)), gravity}}

UnitInputs == AtRest(RowPoints) \cup AtRest(ColumnPoints) \cup Moving

UnitFrameTimes == {F(ONE \div 8), F(ONE \div 4)}

UnitInit ==
    /\ objects \in UnitInputs
    /\ before = objects
    /\ pc = "input"
    /\ screen_width = UnitScreen
    /\ screen_height = UnitScreen
    /\ dt = F(0)
    /\ substeps = 0
    /\ sub_dt = F(0)
    /\ iter = 0
    /\ frames = 0

UnitSolveCollisions ==
    /\ pc = "input"
    /\ objects' = solve_collisions(objects)
    /\ pc' = "solve_collisions"
    /\ UNCHANGED <<dt, substeps, sub_dt, iter, screen_width, screen_height, frames, before>>

UnitUpdatePosition(d) ==
    /\ pc = "input"
    /\ dt' = d
    /\ objects' = update_positions(objects, d)
    /\ pc' = "update_position"
    /\ UNCHANGED <<substeps, sub_dt, iter, screen_width, screen_height, frames, before>>

\* Solver::update is called between frames, when no acceleration is pending
UnitUpdate(d, n) ==
    /\ pc = "input"
    /\ \A i \in DOMAIN objects : objects[i].acceleration = Vec2(F(0), F(0))
    /\ dt' = d
    /\ substeps' = n
    /\ sub_dt' = fdiv(d, FromU32(n))
    /\ iter' = n
    /\ objects' = update(objects, d, n, screen_width, screen_height)
    /\ pc' = "update"
    /\ frames' = frames + 1
    /\ UNCHANGED <<screen_width, screen_height, before>>

UnitNext ==
    \/ UnitSolveCollisions
    \/ \E d \in UnitFrameTimes : UnitUpdatePosition(d)
    \/ \E d \in UnitFrameTimes, n \in 1..MaxSubsteps : UnitUpdate(d, n)

SpecUnit == UnitInit /\ [][UnitNext]_vars

(***************************************************************************)
(* Properties                                                              *)
(***************************************************************************)
Zero == Vec2(F(0), F(0))

\* 2.0 * RADIUS
TwoR == fmul(F(2 * ONE), fRADIUS)

\* distance between the centres of two objects
Dist(a, b) == length(vsub(a.position_current, b.position_current))

FiniteVec(a) == IsFinite(a.x) /\ IsFinite(a.y)

Accelerations(objs) == {objs[i].acceleration : i \in DOMAIN objs}

\* a call of Solver::update is in progress
InUpdate ==
    pc \in {"for", "apply_gravity", "apply_constraints", "solve_collisions",
            "update_positions", "return"}

\* C1: Solver::update runs exactly `substeps` sub-iterations; each runs
\* apply_gravity, apply_constraints, solve_collisions, update_positions(sub_dt)
\* once, in that order, with sub_dt = dt / substeps; the next sub-iteration
\* starts only after update_positions, and the acceleration accumulated by
\* apply_gravity is consumed and reset by update_positions of the same
\* sub-iteration.
C1_PhaseOrder ==
    [][ /\ pc = "call" =>
              pc' = "for" /\ iter' = 0 /\ sub_dt' = fdiv(dt', FromU32(substeps'))
        /\ pc = "for" =>
              /\ iter' = iter
              /\ \/ iter < substeps /\ pc' = "apply_gravity"
                 \/ iter = substeps /\ pc' = "return"
              /\ Accelerations(objects) \subseteq {Zero}
        /\ pc = "apply_gravity" =>
              /\ pc' = "apply_constraints" /\ iter' = iter
              /\ Accelerations(objects') \subseteq {gravity}
        /\ pc = "apply_constraints" => pc' = "solve_collisions" /\ iter' = iter
        /\ pc = "solve_collisions" => pc' = "update_positions" /\ iter' = iter
        /\ pc = "update_positions" =>
              /\ pc' = "for" /\ iter' = iter + 1
              /\ sub_dt = fdiv(dt, FromU32(substeps))
              /\ Accelerations(objects) \subseteq {gravity}
              /\ Accelerations(objects') \subseteq {Zero}
        /\ pc = "return" => iter = substeps /\ pc' = "idle"
      ]_vars

C1_Witness ==
    pc = "return" /\ substeps = 2 /\ iter = 2 /\ Len(objects) >= 1

\* C2: when two objects have exactly the same position_current, one
\* solve_collisions pass leaves both with finite coordinates and at a finite,
\* positive distance.
C2_DegenerateDistanceSafe ==
    [][ (pc = "solve_collisions" /\ Len(objects) = 2
           /\ FiniteVec(objects[1].position_current)
           /\ objects[1].position_current = objects[2].position_current) =>
          /\ FiniteVec(objects'[1].position_current)
          /\ FiniteVec(objects'[2].position_current)
          /\ IsFinite(Dist(objects'[1], objects'[2]))
          /\ Dist(objects'[1], objects'[2]).v > 0
      ]_vars

\* C3: a call of Solver::update with substeps = 0 leaves every object's
\* position_current, position_old and acceleration as they were before the
\* call; the quotient dt / 0 is never written into an object.
C3_ZeroSubstepsNoOp ==
    (InUpdate /\ substeps = 0) => objects = before

C3_Witness ==
    pc = "return" /\ substeps = 0 /\ ~IsFinite(sub_dt) /\ Len(objects) >= 2

\* C4: for two objects at distance d < 2r, after solve_collisions their
\* distance is 2r and they have moved by equal and opposite displacements of
\* length 0.5 * (2r - d); at distance d >= 2r both are unchanged.
C4_PairSeparation ==
    (pc = "solve_collisions" /\ Len(before) = 2) =>
        LET d  == Dist(before[1], before[2])
            m1 == vsub(objects[1].position_current, before[1].position_current)
            m2 == vsub(objects[2].position_current, before[2].position_current)
        IN  IF flt(d, TwoR)
            THEN /\ Dist(objects[1], objects[2]) = TwoR
                 /\ length(m1) = fmul(F(ONE \div 2), fsub(TwoR, d))
                 /\ vadd(m1, m2) = Zero
            ELSE objects = before

\* coordinate c0 clamped into [lo, hi] gives c1
Clamped(c0, c1, lo, hi) ==
    /\ flt(c0, lo) => c1 = lo
    /\ flt(hi, c0) => c1 = hi
    /\ (~flt(c0, lo) /\ ~flt(hi, c0)) => c1 = c0
    /\ IsFinite(c1) /\ lo.v <= c1.v /\ c1.v <= hi.v

\* C5: after apply_constraints every coordinate that was below r+1 is r+1,
\* every coordinate that was above width-r-1 (height-r-1) is that bound, every
\* other coordinate is unchanged, and every position_current lies inside
\* [r+1, width-r-1] x [r+1, height-r-1].
C5_BoxContainment ==
    [][ pc = "apply_constraints" =>
          \A i \in DOMAIN objects :
              LET lo == F((RADIUS + 1) * ONE)
                  p0 == objects[i].position_current
                  p1 == objects'[i].position_current
              IN  /\ Clamped(p0.x, p1.x, lo, fsub(screen_width, lo))
                  /\ Clamped(p0.y, p1.y, lo, fsub(screen_height, lo))
      ]_vars

RECURSIVE NeverClamped(_, _, _, _, _, _)
\* neither apply_constraints nor solve_collisions changes anything in
\* iterations k .. n-1 of Solver::update
NeverClamped(objs, sdt, k, n, sw, sh) ==
    IF ~(k < n) THEN TRUE
    ELSE LET g == apply_gravity(objs, gravity)
         IN  /\ apply_constraints(g, sw, sh) = g
             /\ solve_collisions(g) = g
             /\ NeverClamped(update_positions(g, sdt), sdt, k + 1, n, sw, sh)

\* p + k*v + t*a on finite vectors
Lin(p, v, a, k, t) ==
    Vec2(F(p.x.v + k * v.x.v + t * a.x.v), F(p.y.v + k * v.y.v + t * a.y.v))

\* C7 (as stated): for one object in free space, Solver::update with k
\* substeps ends at the same position_current as with one substep.
C7_SubstepInvariance ==
    (/\ pc = "update" /\ Len(before) = 1
     /\ NeverClamped(before, sub_dt, 0, substeps, screen_width, screen_height)
     /\ NeverClamped(before, dt, 0, 1, screen_width, screen_height)) =>
        objects[1].position_current =
            update(before, dt, 1, screen_width, screen_height)[1].position_current

\* C7 (amended): for one object in free space with implicit velocity v0,
\* Solver::update with k substeps ends at
\* position_current + k*v0 + (k*(k+1)/2) * gravity*sub_dt*sub_dt.
C7_SubstepClosedForm ==
    (/\ pc = "update" /\ Len(before) = 1
     /\ NeverClamped(before, sub_dt, 0, substeps, screen_width, screen_height)) =>
        LET p  == before[1].position_current
            v0 == vsub(p, before[1].position_old)
            a  == vscale(vscale(gravity, sub_dt), sub_dt)
            k  == substeps
        IN  objects[1].position_current = Lin(p, v0, a, k, (k * (k + 1)) \div 2)

C7_Witness ==
    /\ pc = "update" /\ Len(before) = 1 /\ substeps = 2
    /\ NeverClamped(before, sub_dt, 0, substeps, screen_width, screen_height)
    /\ before[1].position_current # before[1].position_old
    /\ objects[1].position_current #
           update(before, dt, 1, screen_width, screen_height)[1].position_current

\* C8 (as stated): with zero acceleration and implicit velocity v0,
\* update_position(dt) keeps the implicit velocity v0, sets position_old to the
\* previous position_current and advances position_current by v0*dt.
C8_AdvanceByVelocityTimesDt ==
    pc = "update_position" =>
        \A i \in DOMAIN before :
            before[i].acceleration = Zero =>
                LET c  == before[i].position_current
                    v0 == vsub(c, before[i].position_old)
                IN  /\ vsub(objects[i].position_current, objects[i].position_old) = v0
                    /\ objects[i].position_old = c
                    /\ objects[i].position_current = vadd(c, vscale(v0, dt))

\* C8 (amended): with zero acceleration and implicit velocity v0,
\* update_position(dt) keeps the implicit velocity v0, sets position_old to the
\* previous position_current and advances position_current by v0, whatever dt.
C8_AdvanceByVelocity ==
    pc = "update_position" =>
        \A i \in DOMAIN before :
            before[i].acceleration = Zero =>
                LET c  == before[i].position_current
                    v0 == vsub(c, before[i].position_old)
                IN  /\ vsub(objects[i].position_current, objects[i].position_old) = v0
                    /\ objects[i].position_old = c
                    /\ objects[i].position_current = vadd(c, v0)

C8_Witness ==
    /\ pc = "update_position"
    /\ \E i \in DOMAIN before :
          /\ before[i].acceleration = Zero
          /\ before[i].position_current # before[i].position_old
          /\ objects[i].position_current # before[i].position_current

\* C9: outside the loop body of Solver::update (in the host before and
\* after the call, at the loop head, at the return) every object's
\* acceleration is zero, and an object just created has zero acceleration and
\* position_old = position_current.
C9_AccelerationTransient ==
    /\ [](pc \in {"idle", "mouse", "call", "for", "return"} =>
             Accelerations(objects) \subseteq {Zero})
    /\ [][ Len(objects') = Len(objects) + 1 =>
             LET o == objects'[Len(objects')]
             IN  o.acceleration = Zero /\ o.position_old = o.position_current ]_vars

C9_Witness ==
    /\ pc = "return" /\ iter = 2 /\ Len(objects) = 2
    /\ objects[2].position_current # objects[2].position_old

\* C10: apply_gravity leaves position_current and position_old unchanged;
\* apply_constraints and solve_collisions leave position_old and acceleration
\* unchanged; update_positions sets position_old to the position_current held
\* just before it.
C10_PositionOldFrame ==
    [][ /\ pc \in {"apply_gravity", "apply_constraints", "solve_collisions",
                   "update_positions"} => DOMAIN objects' = DOMAIN objects
        /\ pc = "apply_gravity" =>
              \A i \in DOMAIN objects :
                  /\ objects'[i].position_old = objects[i].position_old
                  /\ objects'[i].position_current = objects[i].position_current
        /\ pc \in {"apply_constraints", "solve_collisions"} =>
              \A i \in DOMAIN objects :
                  /\ objects'[i].position_old = objects[i].position_old
                  /\ objects'[i].acceleration = objects[i].acceleration
        /\ pc = "update_positions" =>
              \A i \in DOMAIN objects :
                  objects'[i].position_old = objects[i].position_current
      ]_vars

C10_Witness ==
    /\ pc = "for" /\ iter = 2
    /\ \E i \in DOMAIN objects :
          /\ i \in DOMAIN before
          /\ objects[i].position_old # before[i].position_old
          /\ objects[i].position_old # objects[i].position_current
====
